---------------------------- MODULE Spec2Model ----------------------------
(***************************************************************************)
(* Function values of the scripting runtime (src/model/func.rs): the call  *)
(* dispatch over native functions, closures and partial applications, the  *)
(* closure invocation protocol, and the capture walk that computes a       *)
(* closure's captured scope.                                               *)
(***************************************************************************)
EXTENDS Integers, Sequences, FiniteSets, TLC

(***************************************************************************)
(* Bounds of the model.                                                    *)
(***************************************************************************)
\* Number of Func values held at once.
MaxFuncs == 3
\* Longest argument list a dispatch handles (pre-applied plus supplied items).
MaxItems == 3
\* Deepest chain of partial applications around a native function or closure.
MaxWith == 2
\* Number of assignments to an outer binding (each assigns a new value).
MaxAssign == 1
\* The count of direct calls of a closure stops growing here (calls go on).
MaxCalls == 2
\* Number of statements at the top of a generated syntax tree.
MaxStmts == 2

(***************************************************************************)
(* Values, argument items and results.                                     *)
(***************************************************************************)
NoName == ""

None == [tag |-> "none", n |-> 0, items |-> <<>>]

IntVal(n) == [tag |-> "int", n |-> n, items |-> <<>>]

ArgsValue(items) == [tag |-> "args", n |-> 0, items |-> items]

Some(v) == [some |-> TRUE, val |-> v]

Nothing == [some |-> FALSE, val |-> None]

Arg(name, value) == [name |-> name, value |-> value]

Ok(v) == [ok |-> TRUE, val |-> v, err |-> "", what |-> NoName]

Err(e, what) == [ok |-> FALSE, val |-> None, err |-> e, what |-> what]

MissingArgument == "missing argument"

UnexpectedArgument == "unexpected argument"

IllegalControlFlow == "illegal control flow"

BodyError == "body error"

NativeError == "native error"

\* The items a caller or a partial application can supply.
ArgItems == {Arg(NoName, IntVal(1)), Arg(NoName, IntVal(2)), Arg("y", IntVal(3))}

RECURSIVE SeqsUpTo(_, _)
SeqsUpTo(S, n) ==
    IF n = 0 THEN {<<>>}
    ELSE LET shorter == SeqsUpTo(S, n - 1)
         IN  shorter \cup {Append(s, e) : s \in {t \in shorter : Len(t) = n - 1}, e \in S}

(***************************************************************************)
(* Scope: a map from names to values.                                      *)
(***************************************************************************)
EmptyScope == [n \in {} |-> None]

Define(scope, name, value) ==
    [n \in DOMAIN scope \cup {name} |-> IF n = name THEN value ELSE scope[n]]

(***************************************************************************)
(* Args: the argument list and its operations.                             *)
(***************************************************************************)
RECURSIVE FirstPos(_, _)
\* Index of the first positional item at or after i, 0 when there is none.
FirstPos(items, i) ==
    IF i > Len(items) THEN 0
    ELSE IF items[i].name = NoName THEN i
    ELSE FirstPos(items, i + 1)

Remove(items, i) ==
    [k \in 1..(Len(items) - 1) |-> IF k < i THEN items[k] ELSE items[k + 1]]

\* Args::expect: consume the first positional item, or fail.
ArgsExpect(items, what) ==
    LET i == FirstPos(items, 1)
    IN  IF i = 0
        THEN [res |-> Err(MissingArgument, what), items |-> items]
        ELSE [res |-> Ok(items[i].value), items |-> Remove(items, i)]

ArgsRetain(items, keep(_)) ==
    LET F[i \in 0..Len(items)] ==
            IF i = 0 THEN <<>>
            ELSE IF keep(items[i]) THEN Append(F[i - 1], items[i]) ELSE F[i - 1]
    IN  F[Len(items)]

\* Args::named: remove every item of that name; the last one is the value.
ArgsNamed(items, name) ==
    LET IsName(a) == a.name = name
        NotName(a) == a.name # name
        hits == ArgsRetain(items, IsName)
    IN  [found |-> IF Len(hits) = 0 THEN Nothing ELSE Some(hits[Len(hits)].value),
         items |-> ArgsRetain(items, NotName)]

\* Args::take: all remaining items, leaving the list empty.
ArgsTake(items) == [taken |-> ArgsValue(items), items |-> <<>>]

\* Args::finish: fail when an item remains.
ArgsFinish(items) ==
    IF Len(items) > 0 THEN Err(UnexpectedArgument, items[1].name) ELSE Ok(None)

(***************************************************************************)
(* Func and its representations.                                           *)
(***************************************************************************)
Native(name, node, npos) ==
    [kind |-> "native", name |-> name, node |-> node, npos |-> npos]

\* Func::from_fn
FromFn(name, npos) == Native(name, FALSE, npos)

\* Func::from_node
FromNode(name, npos) == Native(name, TRUE, npos)

\* Func::from_closure
FromClosure(closure) == [kind |-> "closure", closure |-> closure]

\* Func::with
With(f, items) == [kind |-> "with", wrapped |-> f, applied |-> items]

\* Splice putting the applied items behind the caller's.
SpliceBehind(applied, items) == items \o applied

\* The splice of Func::call's With arm: the applied items go in front.
Splice(applied, items) == applied \o items

RECURSIVE Base(_)
\* The native function or closure at the bottom of a chain of Withs.
Base(f) == IF f.kind = "with" THEN Base(f.wrapped) ELSE f

RECURSIVE AppliedItems(_)
\* The pre-applied items of a chain, innermost application first.
AppliedItems(f) ==
    IF f.kind = "with" THEN AppliedItems(f.wrapped) \o f.applied ELSE <<>>

RECURSIVE Depth(_)
Depth(f) == IF f.kind = "with" THEN 1 + Depth(f.wrapped) ELSE 0

RECURSIVE Chains(_, _)
\* The functions Func::with builds from bases in at most d applications.
Chains(bases, d) ==
    IF d = 0 THEN bases
    ELSE LET inner == Chains(bases, d - 1)
             fits == {p \in inner \X SeqsUpTo(ArgItems, MaxItems) :
                         Len(AppliedItems(p[1])) + Len(p[2]) <= MaxItems}
         IN  inner \cup {With(p[1], p[2]) : p \in fits}

(***************************************************************************)
(* Closures.                                                               *)
(***************************************************************************)
ParamNames == {"x", "y"}

SinkName == "s"

OuterNames == {"x"}

DefaultValue == IntVal(0)

BodyValue == IntVal(7)

ExplicitValue == IntVal(9)

Param(name, default) == [name |-> name, default |-> default]

\* Closure::params: every list of distinctly named parameters, each with or
\* without a default.
ParamLists ==
    {ps \in SeqsUpTo([name : ParamNames, default : {Nothing, Some(DefaultValue)}],
                     Cardinality(ParamNames)) :
        \A i, j \in 1..Len(ps) : i # j => ps[i].name # ps[j].name}

Closure(captured, params, sink) ==
    [location |-> "source", name |-> NoName, captured |-> captured,
     params |-> params, sink |-> sink, body |-> "body"]

NoClosure == Closure(EmptyScope, <<>>, NoName)

\* Route::new
Route(id) == [id |-> id]

\* Route::default
DefaultRoute == Route("none")

\* SourceId::detached
Detached == "detached"

Vm(location, route) == [location |-> location, route |-> route]

NoVm == Vm("none", DefaultRoute)

\* The Vm of an evaluation in progress in the main source file.
CallerVm == Vm("main", Route("main"))

NoAnswer == [kind |-> "none"]

\* Control flow pending in the Vm after an evaluation.
NoFlow == [kind |-> "none", value |-> Nothing]

Return(value) == [kind |-> "return", value |-> value]

Break == [kind |-> "break", value |-> Nothing]

Continue == [kind |-> "continue", value |-> Nothing]

Flows == {NoFlow, Return(Some(ExplicitValue)), Return(Nothing), Break, Continue}

BodyResults == {Ok(BodyValue), Err(BodyError, NoName)}

\* CallScopes leaking the scope of the call site into the invocation.
CallScopesOfCallSite(closure, callSite) == callSite

\* Closure::call, the scopes the invocation starts from: the captured scope.
CallScopes(closure, callSite) == closure.captured

\* BindParam binding None where a positional argument is missing.
BindParamLenient(scope, items, param) ==
    IF param.default.some
    THEN LET r == ArgsNamed(items, param.name)
         IN  [res |-> Ok(None),
              scope |-> Define(scope, param.name,
                               IF r.found.some THEN r.found.val ELSE param.default.val),
              items |-> r.items]
    ELSE LET r == ArgsExpect(items, param.name)
         IN  [res |-> Ok(None),
              scope |-> Define(scope, param.name, r.res.val),
              items |-> r.items]

\* BindParam binding the stored default whatever named argument is supplied.
BindParamDefaultOnly(scope, items, param) ==
    IF param.default.some
    THEN LET r == ArgsNamed(items, param.name)
         IN  [res |-> Ok(None),
              scope |-> Define(scope, param.name, param.default.val),
              items |-> r.items]
    ELSE LET r == ArgsExpect(items, param.name)
         IN  [res |-> r.res,
              scope |-> IF r.res.ok THEN Define(scope, param.name, r.res.val) ELSE scope,
              items |-> r.items]

\* Closure::call, one iteration of the parameter loop.
BindParam(scope, items, param) ==
    IF param.default.some
    THEN LET r == ArgsNamed(items, param.name)
         IN  [res |-> Ok(None),
              scope |-> Define(scope, param.name,
                               IF r.found.some THEN r.found.val ELSE param.default.val),
              items |-> r.items]
    ELSE LET r == ArgsExpect(items, param.name)
         IN  [res |-> r.res,
              scope |-> IF r.res.ok THEN Define(scope, param.name, r.res.val) ELSE scope,
              items |-> r.items]

\* BindSink binding a copy of the remaining arguments and leaving them.
BindSinkCopying(scope, items, sink) ==
    IF sink # NoName
    THEN [scope |-> Define(scope, sink, ArgsValue(items)), items |-> items]
    ELSE [scope |-> scope, items |-> items]

\* Closure::call, the sink: the remaining arguments are put into it.
BindSink(scope, items, sink) ==
    IF sink # NoName
    THEN LET r == ArgsTake(items)
         IN  [scope |-> Define(scope, sink, r.taken), items |-> r.items]
    ELSE [scope |-> scope, items |-> items]

\* ControlFlow with the body's error propagated before the flow is looked at.
ControlFlowErrorFirst(result, flow) ==
    IF ~result.ok THEN result
    ELSE CASE flow.kind = "return" /\ flow.value.some -> Ok(flow.value.val)
           [] flow.kind \in {"break", "continue"} -> Err(IllegalControlFlow, flow.kind)
           [] OTHER -> result

\* Closure::call, the control flow handling after the body.
ControlFlow(result, flow) ==
    CASE flow.kind = "return" /\ flow.value.some -> Ok(flow.value.val)
      [] flow.kind = "return" /\ ~flow.value.some -> result
      [] flow.kind \in {"break", "continue"} -> Err(IllegalControlFlow, flow.kind)
      [] OTHER -> result

\* CallRoute starting a fresh route whatever the caller's location is.
CallRouteAlwaysFresh(closure, v) == Route(closure.location)

\* Closure::call, the route inside the closure: a fresh one at the closure's
\* location when the caller's location is detached, else the caller's route.
CallRoute(closure, v) ==
    IF v.location = Detached THEN Route(closure.location) ELSE v.route

\* A native function pointer: a node's function runs the set rule, which takes
\* the named property, and the constructor; both kinds expect npos positionals.
RECURSIVE ExpectN(_, _)
ExpectN(items, n) ==
    IF n = 0 THEN [res |-> Ok(None), items |-> items]
    ELSE LET r == ArgsExpect(items, "native")
         IN  IF r.res.ok THEN ExpectN(r.items, n - 1) ELSE r

NativeValue == IntVal(5)

NativeFunc(native, items, fails) ==
    LET styled == IF native.node THEN ArgsNamed(items, "y").items ELSE items
        r == ExpectN(styled, native.npos)
    IN  IF ~r.res.ok THEN r
        ELSE IF fails THEN [res |-> Err(NativeError, NoName), items |-> r.items]
        ELSE [res |-> Ok(NativeValue), items |-> r.items]

Natives == {FromFn("fn", 1), FromNode("node", 1)}

(***************************************************************************)
(* Func::argc, Func::set, Func::node and Func::where_.                     *)
(***************************************************************************)
\* Option<usize>
Known(n) == [known |-> TRUE, n |-> n]

Unknown == [known |-> FALSE, n |-> 0]

\* A subtraction that goes below zero.
PlainSub(a, b) == a - b

\* usize::saturating_sub
SaturatingSub(a, b) == IF a >= b THEN a - b ELSE 0

\* Closure::argc
ClosureArgc(closure) ==
    IF closure.sink # NoName THEN Unknown
    ELSE Known(Cardinality({i \in 1..Len(closure.params) :
                               ~closure.params[i].default.some}))

RECURSIVE Argc(_)
\* Func::argc
Argc(f) ==
    CASE f.kind = "closure" -> ClosureArgc(f.closure)
      [] f.kind = "with" ->
            LET wrapped == Argc(f.wrapped)
                unnamed == {i \in 1..Len(f.applied) : f.applied[i].name = NoName}
            IN  IF wrapped.known
                THEN Known(SaturatingSub(wrapped.n, Cardinality(unnamed)))
                ELSE Unknown
      [] OTHER -> Unknown

NotCustomizable == "this function cannot be customized"

NotSelectable == "this function is not selectable"

\* IsNodeNative looking through the partial applications.
IsNodeNativeBelow(f) == Base(f).kind = "native" /\ Base(f).node

\* The pattern Repr::Native(Native { node: Some(id), .. }), and the same with
\* set: from_node sets both, from_fn neither.
IsNodeNative(f) == f.kind = "native" /\ f.node

NodeId(native) == [tag |-> "node id", of |-> native.name]

StyleMap(items) == [tag |-> "styles", items |-> items]

\* The set rule of a node: it takes the named property, and may fail.
SetRule(native, items, fails) ==
    LET IsProperty(a) == a.name = "y"
        r == ArgsNamed(items, "y")
    IN  IF fails THEN [res |-> Err(NativeError, NoName), items |-> r.items]
        ELSE [res |-> Ok(StyleMap(ArgsRetain(items, IsProperty))), items |-> r.items]

\* Func::set
FuncSet(f, items, fails) ==
    IF IsNodeNative(f)
    THEN LET r == SetRule(f, items, fails)
             finished == ArgsFinish(r.items)
         IN  IF ~r.res.ok THEN r
             ELSE [res |-> IF finished.ok THEN r.res ELSE finished, items |-> r.items]
    ELSE [res |-> Err(NotCustomizable, "set"), items |-> items]

\* Func::node
FuncNode(f) ==
    IF IsNodeNative(f) THEN Ok(NodeId(f)) ELSE Err(NotCustomizable, "show")

\* Args::to_named: a dictionary of the named items, the last of a name wins.
ToNamed(items) ==
    LET names == {items[i].name : i \in 1..Len(items)} \ {NoName}
        Last(n) == CHOOSE i \in 1..Len(items) :
                       /\ items[i].name = n
                       /\ \A j \in (i + 1)..Len(items) : items[j].name # n
    IN  [n \in names |-> items[Last(n)].value]

\* Selector::Node
SelectorNode(id, named) == [tag |-> "selector", id |-> id, named |-> named]

\* where_ leaving the named items in the list.
FuncWhereKeeping(f, items) ==
    IF IsNodeNative(f)
    THEN [res |-> Ok(SelectorNode(NodeId(f), ToNamed(items))), items |-> items]
    ELSE [res |-> Err(NotSelectable, NoName), items |-> items]

\* Func::where_
FuncWhere(f, items) ==
    IF IsNodeNative(f)
    THEN LET IsPositional(a) == a.name = NoName
         IN  [res |-> Ok(SelectorNode(NodeId(f), ToNamed(items))),
              items |-> ArgsRetain(items, IsPositional)]
    ELSE [res |-> Err(NotSelectable, NoName), items |-> items]

\* The items where_ is given: names may repeat.
WhereItems == ArgItems \cup {Arg("y", IntVal(4)), Arg("z", IntVal(5))}

(***************************************************************************)
(* Syntax trees, as far as CapturesVisitor::visit tells them apart.        *)
(***************************************************************************)
Node(kind, name, names, params, kids) ==
    [kind |-> kind, name |-> name, names |-> names, params |-> params, kids |-> kids]

NoNode == Node("none", NoName, <<>>, <<>>, <<>>)

Ident(name) == Node("ident", name, <<>>, <<>>, <<>>)

CodeBlock(kids) == Node("code", NoName, <<>>, <<>>, kids)

ContentBlock(kids) == Node("content", NoName, <<>>, <<>>, kids)

\* ast::Param
Pos(name) == [kind |-> "pos", name |-> name, expr |-> NoNode]

Named(name, expr) == [kind |-> "named", name |-> name, expr |-> expr]

SinkParam(name) == [kind |-> "sink", name |-> name, expr |-> NoNode]

ClosureExpr(params, body) == Node("closure", NoName, <<>>, params, <<body>>)

LetBinding(name, init) == Node("let", name, <<>>, <<>>, init)

\* names: the pattern, <<value>> or <<key, value>>; kids: iterable and body.
ForLoop(names, iter, body) == Node("for", NoName, names, <<>>, <<iter, body>>)

\* name: "items" or "wildcard" (ast::Imports); names: the imported items.
ModuleImport(imports, names, path) == Node("import", imports, names, <<>>, <<path>>)

\* Any other node: markup, a binary operation, a show rule, a call, ...
Other(kids) == Node("other", NoName, <<>>, <<>>, kids)

Plus(a, b) == Other(<<Ident(a), Ident(b)>>)

\* The child of node at index k: a closure's children are its parameters'
\* default expressions (NoNode for a parameter that has none) and its body.
ChildAt(node, k) ==
    IF node.kind = "closure"
    THEN IF k <= Len(node.params) THEN node.params[k].expr ELSE node.kids[1]
    ELSE node.kids[k]

BodyIndex(node) == Len(node.params) + 1

RECURSIVE NodeAt(_, _)
NodeAt(node, path) ==
    IF path = <<>> THEN node ELSE NodeAt(ChildAt(node, Head(path)), Tail(path))

\* The sources of tests::test_captures, in order.
TestTrees ==
    << Other(<<LetBinding("x", <<Ident("x")>>)>>),
       Other(<<LetBinding("x", <<>>), CodeBlock(<<Plus("x", "y")>>)>>),
       Other(<<LetBinding("f", <<ClosureExpr(<<Pos("x"), Pos("y")>>, Plus("x", "y"))>>)>>),
       Other(<<CodeBlock(<<ClosureExpr(<<Pos("x"), Pos("y")>>, Plus("x", "z"))>>)>>),
       Other(<<CodeBlock(<<ClosureExpr(<<Named("x", Ident("y")), Pos("z")>>,
                                        Plus("x", "z"))>>)>>),
       Other(<<CodeBlock(<<ClosureExpr(<<SinkParam("x")>>, Plus("x", "y"))>>)>>),
       Other(<<CodeBlock(<<ClosureExpr(<<Pos("x"), Named("y", Plus("x", "z"))>>,
                                        Plus("x", "y"))>>)>>),
       Other(<<Other(<<Ident("y"), ClosureExpr(<<Pos("x")>>, Ident("x"))>>)>>),
       Other(<<Other(<<Ident("y"), ClosureExpr(<<Pos("x")>>, Plus("x", "z"))>>)>>),
       Other(<<Other(<<Ident("x"), ClosureExpr(<<Pos("x")>>, Ident("x"))>>)>>),
       Other(<<ForLoop(<<"x">>, Ident("y"), CodeBlock(<<Plus("x", "z")>>))>>),
       Other(<<ForLoop(<<"x", "y">>, Ident("y"), CodeBlock(<<Plus("x", "y")>>))>>),
       Other(<<ModuleImport("items", <<"x", "y">>, Ident("z"))>>),
       Other(<<ModuleImport("items", <<"x", "y", "z">>, Plus("x", "y"))>>),
       Other(<<CodeBlock(<<LetBinding("x", <<Other(<<>>)>>),
                           CodeBlock(<<LetBinding("y", <<Other(<<>>)>>), Ident("y")>>),
                           Plus("x", "y")>>)>>),
       Other(<<ContentBlock(<<LetBinding("x", <<Other(<<>>)>>)>>), Ident("x")>>) >>

\* The captures tests::test_captures expects of them.
TestCaptures ==
    << {"x"}, {"y"}, {}, {"z"}, {"y"}, {"y"}, {"x", "z"}, {"y"}, {"y", "z"}, {"x"},
       {"y", "z"}, {"y"}, {"z"}, {"x", "y"}, {"y"}, {"x"} >>

\* The scopes of tests::test: x, y and z are defined.
TestScope == [n \in {"x", "y", "z"} |-> IntVal(0)]

\* The statements of the generated trees, over the names x and y.
Names == {"x", "y"}

Statements ==
    {Ident(n) : n \in Names}
        \cup {Plus("x", "y")}
        \cup {LetBinding(n, <<>>) : n \in Names}
        \cup {LetBinding(n, <<Ident(m)>>) : n \in Names, m \in Names}
        \cup {ForLoop(<<v>>, Ident(i), Plus("x", "y")) : v \in Names, i \in Names}
        \cup {ForLoop(<<"x", "y">>, Ident(i), Plus("x", "y")) : i \in Names}
        \cup {ModuleImport("items", its, path) :
                 its \in {<<"x">>, <<"x", "y">>}, path \in {Ident("x"), Plus("x", "y")}}
        \cup {ModuleImport("wildcard", <<>>, Ident("y"))}
        \cup {ClosureExpr(ps, Plus("x", "y")) :
                 ps \in {<<Pos("x")>>, <<Named("x", Ident("x"))>>, <<Named("x", Ident("y"))>>,
                         <<SinkParam("x")>>, <<Pos("x"), Named("y", Plus("x", "y"))>>,
                         <<Named("y", Ident("x")), Pos("x")>>}}
        \cup {ClosureExpr(<<Pos("x")>>, CodeBlock(<<Ident("x"), Ident("y")>>))}
        \cup {CodeBlock(<<st>>) : st \in {LetBinding("x", <<>>), LetBinding("y", <<Ident("x")>>)}}
        \cup {CodeBlock(<<st, Ident(n)>>) :
                 st \in {LetBinding("x", <<>>), LetBinding("y", <<Ident("x")>>)}, n \in Names}
        \cup {ContentBlock(<<LetBinding("x", <<>>)>>)}

\* The outer scopes of the generated trees: x resolves, y may or may not.
Externals ==
    {[n \in {"x", "y"} |-> IF n = "x" THEN IntVal(1) ELSE IntVal(2)],
     [n \in {"x"} |-> IntVal(1)]}

\* A tree to walk with the external scope to walk it under.
Walks ==
    {[root |-> TestTrees[i], external |-> TestScope] : i \in 1..Len(TestTrees)}
        \cup {[root |-> Other(ss), external |-> e] :
                 ss \in SeqsUpTo(Statements, MaxStmts), e \in Externals}

(***************************************************************************)
(* Scopes of internal bindings: a stack of frames, the top frame last.     *)
(***************************************************************************)
NewScopes == <<{}>>

\* Scopes::enter
Enter(frames) == Append(frames, {})

\* Scopes::exit
Exit(frames) == SubSeq(frames, 1, Len(frames) - 1)

\* CapturesVisitor::bind: the name is defined in the top frame.
Bind(frames, name) ==
    [frames EXCEPT ![Len(frames)] = @ \cup {name}]

BoundNames(frames) == UNION {frames[i] : i \in 1..Len(frames)}

(***************************************************************************)
(* State.                                                                  *)
(***************************************************************************)
VARIABLES
    outer,      \* the scope of the definition and call site
    base,       \* the native function or closure that has been created
    defScope,   \* the outer bindings a closure captured, as of its definition
    pc,         \* position of the call in progress
    calls,      \* number of repeated direct calls started
    callee,     \* the function Func::call was invoked on
    supplied,   \* the argument items Func::call was invoked with
    cur,        \* the function the dispatch is at
    args,       \* the argument list, as spliced and consumed so far
    scopes,     \* the scope of the closure invocation
    pidx,       \* the parameter the closure invocation binds next
    result,     \* the result of the body evaluation
    flow,       \* the control flow pending after the body evaluation
    ret,        \* what the native function or closure invocation returned
    outcome,    \* what Func::call returned
    trace,      \* the steps of the call in progress, in order
    vm,         \* the Vm of the caller: its location and its route
    sub,        \* the Vm the closure body is evaluated in
    heap,       \* the allocated function representations, by address
    funcs,      \* the Func values held, each the address of its allocation
    answer,     \* what an operation other than call returned
    root,       \* the syntax tree the capture walk is over
    external,   \* CapturesVisitor: the scopes outside the closure
    internal,   \* CapturesVisitor: the frames of names bound inside
    captures,   \* CapturesVisitor: the captured scope so far
    work,       \* the visits and bindings still to do, the next one first
    log         \* the steps of the walk so far, in order

callVars == <<pc, calls, callee, supplied, cur, args, scopes, pidx, result, flow,
              ret, outcome, trace, vm, sub>>

funcVars == <<heap, funcs, answer>>

siteVars == <<outer, base, defScope>>

walkVars == <<root, external, internal, captures, work, log>>

\* What a call in progress leaves alone.
defVars == <<outer, base, defScope, root, external, internal, captures, work, log,
             heap, funcs, answer>>

vars == <<outer, base, defScope, pc, calls, callee, supplied, cur, args, scopes,
          pidx, result, flow, ret, outcome, trace, vm, sub, heap, funcs, answer,
          root, external, internal, captures, work, log>>

NoFunc == [kind |-> "none"]

Pending == Err("pending", NoName)

NoCall ==
    /\ outer = [n \in OuterNames |-> IntVal(0)]
    /\ base = NoFunc
    /\ defScope = EmptyScope
    /\ pc = "idle"
    /\ calls = 0
    /\ callee = NoFunc
    /\ supplied = <<>>
    /\ cur = NoFunc
    /\ args = <<>>
    /\ scopes = EmptyScope
    /\ pidx = 0
    /\ result = Pending
    /\ flow = NoFlow
    /\ ret = Pending
    /\ outcome = Pending
    /\ trace = <<>>
    /\ vm = NoVm
    /\ sub = NoVm

\* No function value is held and nothing has been asked.
NoFuncs ==
    /\ heap = <<>>
    /\ funcs = <<>>
    /\ answer = NoAnswer

NoWalk ==
    /\ root = NoNode
    /\ external = EmptyScope
    /\ internal = NewScopes
    /\ captures = EmptyScope
    /\ work = <<>>
    /\ log = <<>>

Init == NoCall /\ NoFuncs /\ NoWalk

(***************************************************************************)
(* CapturesVisitor: the internal frames and the capture of an identifier.  *)
(***************************************************************************)
\* Scopes::get on the internal scopes: whether some active frame binds name.
Bound(frames, name) == \E i \in 1..Len(frames) : name \in frames[i]

\* Capture without the look at the internal frames.
CaptureBoundToo(frames, ext, caps, ident) ==
    IF ident \in DOMAIN ext THEN Define(caps, ident, ext[ident]) ELSE caps

\* CapturesVisitor::capture
Capture(frames, ext, caps, ident) ==
    IF ~Bound(frames, ident)
    THEN IF ident \in DOMAIN ext
         THEN Define(caps, ident, ext[ident])
         ELSE caps
    ELSE caps

RECURSIVE CaptureAll(_, _, _)
\* The captured scope of a closure whose free identifiers are ids.
CaptureAll(ext, caps, ids) ==
    IF ids = {} THEN caps
    ELSE LET id == CHOOSE n \in ids : TRUE
         IN  CaptureAll(ext, Capture(<<{}>>, ext, caps, id), ids \ {id})

(***************************************************************************)
(* Definition site: a function is created, outer bindings are assigned.    *)
(***************************************************************************)
\* A native function is registered.
NewNative(native) ==
    /\ pc = "idle"
    /\ base = NoFunc
    /\ base' = native
    /\ UNCHANGED <<outer, defScope>>
    /\ UNCHANGED <<callVars, walkVars, funcVars>>

\* Evaluation reaches a closure literal whose free identifiers are ids.
DefineClosure(params, sink, ids) ==
    /\ pc = "idle"
    /\ base = NoFunc
    /\ base' = FromClosure(Closure(CaptureAll(outer, EmptyScope, ids), params, sink))
    /\ defScope' = [n \in ids \cap DOMAIN outer |-> outer[n]]
    /\ UNCHANGED outer
    /\ UNCHANGED <<callVars, walkVars, funcVars>>

AssignOuter(name) ==
    /\ pc = "idle"
    /\ outer[name].n < MaxAssign
    /\ outer' = [outer EXCEPT ![name] = IntVal(@.n + 1)]
    /\ UNCHANGED <<base, defScope>>
    /\ UNCHANGED <<callVars, walkVars, funcVars>>

(***************************************************************************)
(* Func::call                                                              *)
(***************************************************************************)
\* The functions that exist: the one created, and its partial applications.
Funcs == IF base = NoFunc THEN {} ELSE Chains({base}, MaxWith)

Call(f, items, v) ==
    /\ pc = "idle"
    /\ vm' = v
    /\ Len(AppliedItems(f)) + Len(items) <= MaxItems
    /\ pc' = "call"
    /\ callee' = f
    /\ supplied' = items
    /\ cur' = f
    /\ args' = items
    /\ trace' = <<"call">>
    /\ UNCHANGED <<scopes, pidx, result, flow, ret, outcome, sub>>
    /\ UNCHANGED defVars

\* Repr::With: splice the applied items in and call the wrapped function.
CallWith ==
    /\ pc = "call"
    /\ cur.kind = "with"
    /\ args' = Splice(cur.applied, args)
    /\ cur' = cur.wrapped
    /\ trace' = Append(trace, "with")
    /\ UNCHANGED <<pc, calls, callee, supplied, scopes, pidx, result, flow, ret, outcome,
                   vm, sub>>
    /\ UNCHANGED defVars

\* AfterInvocation without the early return of the ? operator.
AfterInvocationAlwaysChecks(r) == "finish"

\* Where the dispatch goes when the native function or closure has returned:
\* on to the exhaustion check, or out of the call with the error.
AfterInvocation(r) == IF r.ok THEN "finish" ELSE "done"

\* Repr::Native: call the function pointer.
CallNative ==
    /\ pc = "call"
    /\ cur.kind = "native"
    /\ \E fails \in BOOLEAN :
          LET r == NativeFunc(cur, args, fails)
          IN  /\ args' = r.items
              /\ ret' = r.res
              /\ pc' = AfterInvocation(r.res)
              /\ outcome' = IF r.res.ok THEN outcome ELSE r.res
    /\ trace' = Append(trace, "native")
    /\ UNCHANGED <<calls, callee, supplied, cur, scopes, pidx, result, flow, vm, sub>>
    /\ UNCHANGED defVars

\* Repr::Closure: Closure::call starts from the captured scope.
CallClosure ==
    /\ pc = "call"
    /\ cur.kind = "closure"
    /\ scopes' = CallScopes(cur.closure, outer)
    /\ pidx' = 1
    /\ pc' = "params"
    /\ trace' = Append(trace, "closure")
    /\ UNCHANGED <<calls, callee, supplied, cur, args, result, flow, ret, outcome, vm, sub>>
    /\ UNCHANGED defVars

\* One parameter is bound; a missing argument ends the call.
BindNext ==
    /\ pc = "params"
    /\ pidx <= Len(cur.closure.params)
    /\ LET r == BindParam(scopes, args, cur.closure.params[pidx])
       IN  /\ scopes' = r.scope
           /\ args' = r.items
           /\ pidx' = IF r.res.ok THEN pidx + 1 ELSE pidx
           /\ ret' = IF r.res.ok THEN ret ELSE r.res
           /\ outcome' = IF r.res.ok THEN outcome ELSE r.res
           /\ pc' = IF r.res.ok THEN pc ELSE "done"
           /\ trace' = Append(trace, IF r.res.ok THEN "bind" ELSE "missing")
    /\ UNCHANGED <<calls, callee, supplied, cur, result, flow, vm, sub>>
    /\ UNCHANGED defVars

\* All parameters are bound: the sink takes what remains.
Sink ==
    /\ pc = "params"
    /\ pidx > Len(cur.closure.params)
    /\ LET r == BindSink(scopes, args, cur.closure.sink)
       IN  /\ scopes' = r.scope
           /\ args' = r.items
    /\ pc' = "body"
    /\ trace' = Append(trace, "sink")
    /\ UNCHANGED <<calls, callee, supplied, cur, pidx, result, flow, ret, outcome, vm, sub>>
    /\ UNCHANGED defVars

\* The body is evaluated in a sub-Vm: it yields a result and leaves a flow.
EvalBody ==
    /\ pc = "body"
    /\ result' \in BodyResults
    /\ flow' \in Flows
    /\ pc' = "flow"
    /\ sub' = Vm(cur.closure.location, CallRoute(cur.closure, vm))
    /\ trace' = Append(trace, "body")
    /\ UNCHANGED <<calls, callee, supplied, cur, args, scopes, pidx, ret, outcome, vm>>
    /\ UNCHANGED defVars

\* The pending flow decides what Closure::call returns.
HandleFlow ==
    /\ pc = "flow"
    /\ LET r == ControlFlow(result, flow)
       IN  /\ ret' = r
           /\ pc' = AfterInvocation(r)
           /\ outcome' = IF r.ok THEN outcome ELSE r
    /\ trace' = Append(trace, "flow")
    /\ UNCHANGED <<calls, callee, supplied, cur, args, scopes, pidx, result, flow, vm, sub>>
    /\ UNCHANGED defVars

\* Finish without the check: the value is returned whatever items remain.
FinishUnchecked ==
    /\ pc = "finish"
    /\ outcome' = Ok(ret.val)
    /\ pc' = "done"
    /\ trace' = Append(trace, "finish")
    /\ UNCHANGED <<calls, callee, supplied, cur, args, scopes, pidx, result, flow, ret, vm, sub>>
    /\ UNCHANGED defVars

\* args.finish() and the value of the call.
Finish ==
    /\ pc = "finish"
    /\ LET r == ArgsFinish(args)
       IN  outcome' = IF r.ok THEN Ok(ret.val) ELSE r
    /\ pc' = "done"
    /\ trace' = Append(trace, "finish")
    /\ UNCHANGED <<calls, callee, supplied, cur, args, scopes, pidx, result, flow, ret, vm, sub>>
    /\ UNCHANGED defVars

\* The caller takes the outcome; the next call starts afresh.
Done ==
    /\ pc = "done"
    /\ pc' = "idle"
    /\ callee' = NoFunc
    /\ supplied' = <<>>
    /\ UNCHANGED calls
    /\ cur' = NoFunc
    /\ args' = <<>>
    /\ scopes' = EmptyScope
    /\ pidx' = 0
    /\ result' = Pending
    /\ flow' = NoFlow
    /\ ret' = Pending
    /\ outcome' = Pending
    /\ trace' = <<>>
    /\ vm' = NoVm
    /\ sub' = NoVm
    /\ UNCHANGED defVars

\* A closure literal whose body uses every outer name.
DefineUsingAll ==
    \E ps \in ParamLists, sink \in {NoName, SinkName} :
        DefineClosure(ps, sink, OuterNames)

NewAny == \E native \in Natives : NewNative(native)

CallAny ==
    /\ pc = "idle"
    /\ \E f \in Funcs, items \in SeqsUpTo(ArgItems, MaxItems) : Call(f, items, CallerVm)
    /\ UNCHANGED calls

Next ==
    \/ NewAny
    \/ DefineUsingAll
    \/ CallAny
    \/ CallWith
    \/ CallNative
    \/ CallClosure
    \/ BindNext
    \/ Sink
    \/ EvalBody
    \/ HandleFlow
    \/ Finish
    \/ Done

Spec == Init /\ [][Next]_vars

(***************************************************************************)
(* The definition site and repeated direct calls of the closure: outer     *)
(* bindings are assigned before and after the closure is created.          *)
(***************************************************************************)
DefineAny ==
    \E ps \in ParamLists, sink \in {NoName, SinkName}, ids \in SUBSET OuterNames :
        DefineClosure(ps, sink, ids)

AssignAny == \E name \in OuterNames : AssignOuter(name)

CallDirect ==
    /\ pc = "idle"
    /\ base # NoFunc
    /\ \E items \in SeqsUpTo(ArgItems, MaxItems) : Call(base, items, CallerVm)
    /\ calls' = IF calls < MaxCalls THEN calls + 1 ELSE calls

NextScope ==
    \/ DefineAny
    \/ AssignAny
    \/ CallDirect
    \/ CallClosure
    \/ BindNext
    \/ Sink
    \/ EvalBody
    \/ HandleFlow
    \/ Finish
    \/ Done

SpecScope == Init /\ [][NextScope]_vars

(***************************************************************************)
(* Calls of the closure from a running evaluation and from outside one.    *)
(***************************************************************************)
\* The Vm of an evaluation in progress in an imported file.
ImportedVm == Vm("lib", Route("main"))

\* Func::call_detached: a Vm with the default route and a detached location.
CallDetached ==
    /\ pc = "idle"
    /\ base # NoFunc
    /\ \E items \in SeqsUpTo(ArgItems, MaxItems) :
          Call(base, items, Vm(Detached, DefaultRoute))
    /\ UNCHANGED calls

CallAttached ==
    /\ pc = "idle"
    /\ base # NoFunc
    /\ \E items \in SeqsUpTo(ArgItems, MaxItems), v \in {CallerVm, ImportedVm} :
          Call(base, items, v)
    /\ UNCHANGED calls

NextRoute ==
    \/ DefineUsingAll
    \/ CallDetached
    \/ CallAttached
    \/ CallClosure
    \/ BindNext
    \/ Sink
    \/ EvalBody
    \/ HandleFlow
    \/ Finish
    \/ Done

SpecRoute == Init /\ [][NextRoute]_vars

(***************************************************************************)
(* The operations of a function value other than call.                     *)
(***************************************************************************)
Asked(op, f, items, left, res) ==
    /\ pc = "idle"
    /\ pc' = "asked"
    /\ callee' = f
    /\ supplied' = items
    /\ args' = left
    /\ answer' = [op |-> op, res |-> res]
    /\ UNCHANGED <<calls, cur, scopes, pidx, result, flow, ret, outcome, trace, vm, sub>>
    /\ UNCHANGED <<siteVars, walkVars, heap, funcs>>

AskArgc(f) == Asked("argc", f, <<>>, <<>>, Argc(f))

\* The caller takes the answer.
Answered ==
    /\ pc = "asked"
    /\ pc' = "idle"
    /\ callee' = NoFunc
    /\ supplied' = <<>>
    /\ args' = <<>>
    /\ answer' = NoAnswer
    /\ UNCHANGED <<calls, cur, scopes, pidx, result, flow, ret, outcome, trace, vm, sub>>
    /\ UNCHANGED <<siteVars, walkVars, heap, funcs>>

AskArgcAny ==
    /\ pc = "idle"
    /\ \E f \in Funcs : AskArgc(f)

AskSet(f, items, fails) ==
    LET r == FuncSet(f, items, fails)
    IN  Asked("set", f, items, r.items, r.res)

AskNode(f) == Asked("node", f, <<>>, <<>>, FuncNode(f))

AskWhere(f, items) ==
    LET r == FuncWhere(f, items)
    IN  Asked("where", f, items, r.items, r.res)

\* The functions that exist and the items that fit the bound with them.
Fitting(items) ==
    {p \in Funcs \X SeqsUpTo(items, MaxItems) :
        Len(AppliedItems(p[1])) + Len(p[2]) <= MaxItems}

AskSetAny ==
    /\ pc = "idle"
    /\ \E p \in Fitting(ArgItems), fails \in BOOLEAN : AskSet(p[1], p[2], fails)

AskNodeAny ==
    /\ pc = "idle"
    /\ \E f \in Funcs : AskNode(f)

AskWhereAny ==
    /\ pc = "idle"
    /\ \E p \in Fitting(WhereItems) : AskWhere(p[1], p[2])

NextQuery ==
    \/ NewAny
    \/ DefineUsingAll
    \/ AskArgcAny
    \/ AskSetAny
    \/ AskNodeAny
    \/ AskWhereAny
    \/ Answered

SpecQuery == Init /\ [][NextQuery]_vars

(***************************************************************************)
(* Func values as pointers to allocations: constructors, clones, equality. *)
(***************************************************************************)
\* A Func: the address of its Arc<Repr>; made tells which constructor call
\* of the run produced it.
Held(addr, made) == [addr |-> addr, made |-> made]

\* The closures and the items the constructors are given.
SomeClosures ==
    {Closure(EmptyScope, <<>>, NoName), Closure(EmptyScope, <<Param("x", Nothing)>>, NoName)}

SomeItems == {<<>>, <<Arg(NoName, IntVal(1))>>}

\* Repr::With: the wrapped Func is held by its address.
WithRepr(addr, items) == [kind |-> "with", wrapped |-> addr, applied |-> items]

\* Equality that compares what the two allocations hold.
FuncEqStructural(a, b) == heap[a.addr] = heap[b.addr]

\* impl PartialEq for Func: Arc::ptr_eq
FuncEq(a, b) == a.addr = b.addr

\* Arc::new(repr) in a constructor: a new allocation, and the Func is kept.
Construct(repr) ==
    /\ pc = "idle"
    /\ Len(funcs) < MaxFuncs
    /\ heap' = Append(heap, repr)
    /\ funcs' = Append(funcs, Held(Len(heap) + 1, Len(heap) + 1))
    /\ UNCHANGED <<callVars, siteVars, walkVars, answer>>

MakeNative == \E native \in Natives : Construct(native)

MakeClosure == \E closure \in SomeClosures : Construct(FromClosure(closure))

\* Func::with on a clone of a held Func.
MakeWith ==
    \E i \in 1..Len(funcs), items \in SomeItems : Construct(WithRepr(funcs[i].addr, items))

\* Func::clone: another Func for the same allocation.
CloneFunc ==
    /\ pc = "idle"
    /\ Len(funcs) < MaxFuncs
    /\ \E i \in 1..Len(funcs) : funcs' = Append(funcs, funcs[i])
    /\ UNCHANGED <<callVars, siteVars, walkVars, heap, answer>>

\* Two held Funcs are compared with ==.
Compare ==
    /\ pc = "idle"
    /\ pc' = "asked"
    /\ \E i \in 1..Len(funcs), j \in 1..Len(funcs) :
          answer' = [op |-> "eq", left |-> i, right |-> j,
                     res |-> FuncEq(funcs[i], funcs[j])]
    /\ UNCHANGED <<calls, callee, supplied, cur, args, scopes, pidx, result, flow, ret,
                   outcome, trace, vm, sub>>
    /\ UNCHANGED <<siteVars, walkVars, heap, funcs>>

NextIdentity ==
    \/ MakeNative
    \/ MakeClosure
    \/ MakeWith
    \/ CloneFunc
    \/ Compare
    \/ Answered

SpecIdentity == Init /\ [][NextIdentity]_vars

(***************************************************************************)
(* CapturesVisitor::visit, one node or binding at a time. The recursion    *)
(* is kept as the list of what is still to do.                             *)
(***************************************************************************)
VisitTask(node, path) == [op |-> "visit", node |-> node, name |-> NoName, path |-> path]

\* path: the construct that binds the name.
BindTask(name, path) == [op |-> "bind", node |-> NoNode, name |-> name, path |-> path]

\* path: the block whose frame is popped.
ExitTask(path) == [op |-> "exit", node |-> NoNode, name |-> NoName, path |-> path]

\* A step of the walk: frames are the internal frames before the step (after
\* it, for exit); took tells whether the step captured the name.
Event(ev, kind, path, name, frames, took) ==
    [ev |-> ev, kind |-> kind, path |-> path, name |-> name, frames |-> frames,
     took |-> took]

\* The children visited twice over.
KidVisitsTwice(node, path) ==
    LET once == [k \in 1..Len(node.kids) |-> VisitTask(node.kids[k], Append(path, k))]
    IN  once \o once

KidVisits(node, path) ==
    [k \in 1..Len(node.kids) |-> VisitTask(node.kids[k], Append(path, k))]

BindTasks(names, path) == [k \in 1..Len(names) |-> BindTask(names[k], path)]

\* Whether capture defines ident in the captures.
Captures(frames, ext, ident) == ident \in DOMAIN Capture(frames, ext, EmptyScope, ident)

Visiting(kinds) ==
    /\ work # <<>>
    /\ Head(work).op = "visit"
    /\ Head(work).node.kind \in kinds

Logged(kind, took) ==
    Append(log, Event("visit", kind, Head(work).path, Head(work).node.name, internal, took))

\* Expr::Ident: capture it.
VisitIdent ==
    /\ Visiting({"ident"})
    /\ captures' = Capture(internal, external, captures, Head(work).node.name)
    /\ work' = Tail(work)
    /\ log' = Logged("ident", Captures(internal, external, Head(work).node.name))
    /\ UNCHANGED <<root, external, internal>>
    /\ UNCHANGED <<siteVars, callVars, funcVars>>

\* Expr::Code, Expr::Content: a frame around the children.
VisitBlock ==
    /\ Visiting({"code", "content"})
    /\ internal' = Enter(internal)
    /\ work' = KidVisits(Head(work).node, Head(work).path)
                   \o <<ExitTask(Head(work).path)>> \o Tail(work)
    /\ log' = Logged(Head(work).node.kind, FALSE)
    /\ UNCHANGED <<root, external, captures>>
    /\ UNCHANGED <<siteVars, callVars, funcVars>>

\* A walk whose blocks keep their frame at the end.
ExitBlockKeeping ==
    /\ work # <<>>
    /\ Head(work).op = "exit"
    /\ internal' = internal
    /\ work' = Tail(work)
    /\ log' = Append(log, Event("exit", "", Head(work).path, NoName, internal', FALSE))
    /\ UNCHANGED <<root, external, captures>>
    /\ UNCHANGED <<siteVars, callVars, funcVars>>

\* The end of a block: self.internal.exit().
ExitBlock ==
    /\ work # <<>>
    /\ Head(work).op = "exit"
    /\ internal' = Exit(internal)
    /\ work' = Tail(work)
    /\ log' = Append(log, Event("exit", "", Head(work).path, NoName, internal', FALSE))
    /\ UNCHANGED <<root, external, captures>>
    /\ UNCHANGED <<siteVars, callVars, funcVars>>

\* The visits of the default expressions of a closure's named parameters.
DefaultVisits(node, path) ==
    LET F[i \in 0..Len(node.params)] ==
            IF i = 0 THEN <<>>
            ELSE IF node.params[i].kind = "named"
                 THEN Append(F[i - 1], VisitTask(node.params[i].expr, Append(path, i)))
                 ELSE F[i - 1]
    IN  F[Len(node.params)]

ParamBinds(node, path) ==
    [k \in 1..Len(node.params) |-> BindTask(node.params[k].name, path)]

\* A walk that binds a closure's parameters before it visits the defaults.
ClosureTasksBindFirst(node, path) ==
    ParamBinds(node, path) \o DefaultVisits(node, path)
        \o <<VisitTask(node.kids[1], Append(path, BodyIndex(node)))>>

\* What visit does for Expr::Closure, in order.
ClosureTasks(node, path) ==
    DefaultVisits(node, path) \o ParamBinds(node, path)
        \o <<VisitTask(node.kids[1], Append(path, BodyIndex(node)))>>

\* A walk that binds the name of a let before it visits the initializer.
LetTasksBindFirst(node, path) ==
    <<BindTask(node.name, path)>> \o KidVisits(node, path)

\* What visit does for Expr::Let, in order.
LetTasks(node, path) ==
    KidVisits(node, path) \o <<BindTask(node.name, path)>>

\* What visit does for Expr::For, in order.
ForTasks(node, path) ==
    <<VisitTask(node.kids[1], Append(path, 1))>> \o BindTasks(node.names, path)
        \o <<VisitTask(node.kids[2], Append(path, 2))>>

\* What visit does for Expr::Import, in order.
ImportTasks(node, path) ==
    <<VisitTask(node.kids[1], Append(path, 1))>>
        \o (IF node.name = "items" THEN BindTasks(node.names, path) ELSE <<>>)

VisitClosure ==
    /\ Visiting({"closure"})
    /\ work' = ClosureTasks(Head(work).node, Head(work).path) \o Tail(work)
    /\ log' = Logged("closure", FALSE)
    /\ UNCHANGED <<root, external, internal, captures>>
    /\ UNCHANGED <<siteVars, callVars, funcVars>>

VisitLet ==
    /\ Visiting({"let"})
    /\ work' = LetTasks(Head(work).node, Head(work).path) \o Tail(work)
    /\ log' = Logged("let", FALSE)
    /\ UNCHANGED <<root, external, internal, captures>>
    /\ UNCHANGED <<siteVars, callVars, funcVars>>

VisitFor ==
    /\ Visiting({"for"})
    /\ work' = ForTasks(Head(work).node, Head(work).path) \o Tail(work)
    /\ log' = Logged("for", FALSE)
    /\ UNCHANGED <<root, external, internal, captures>>
    /\ UNCHANGED <<siteVars, callVars, funcVars>>

VisitImport ==
    /\ Visiting({"import"})
    /\ work' = ImportTasks(Head(work).node, Head(work).path) \o Tail(work)
    /\ log' = Logged("import", FALSE)
    /\ UNCHANGED <<root, external, internal, captures>>
    /\ UNCHANGED <<siteVars, callVars, funcVars>>

\* Everything else: the children from left to right.
VisitOther ==
    /\ Visiting({"other"})
    /\ work' = KidVisits(Head(work).node, Head(work).path) \o Tail(work)
    /\ log' = Logged("other", FALSE)
    /\ UNCHANGED <<root, external, internal, captures>>
    /\ UNCHANGED <<siteVars, callVars, funcVars>>

\* self.bind(ident)
BindName ==
    /\ work # <<>>
    /\ Head(work).op = "bind"
    /\ internal' = Bind(internal, Head(work).name)
    /\ work' = Tail(work)
    /\ log' = Append(log, Event("bind", "", Head(work).path, Head(work).name, internal, FALSE))
    /\ UNCHANGED <<root, external, captures>>
    /\ UNCHANGED <<siteVars, callVars, funcVars>>

\* CapturesVisitor::new, and visit called on the root.
InitWalk ==
    /\ NoCall
    /\ NoFuncs
    /\ \E w \in Walks :
          /\ root = w.root
          /\ external = w.external
          /\ work = <<VisitTask(w.root, <<>>)>>
    /\ internal = NewScopes
    /\ captures = EmptyScope
    /\ log = <<>>

NextWalk ==
    \/ VisitIdent
    \/ VisitBlock
    \/ ExitBlock
    \/ VisitClosure
    \/ VisitLet
    \/ VisitFor
    \/ VisitImport
    \/ VisitOther
    \/ BindName

SpecWalk == InitWalk /\ [][NextWalk]_vars

\* visit runs to its return: a step that can be taken is taken.
SpecWalkFair == SpecWalk /\ WF_vars(NextWalk)

(***************************************************************************)
(* Func::call on a native function or closure, as one evaluation.          *)
(***************************************************************************)
RECURSIVE BindAll(_, _, _, _)
\* The parameter loop of Closure::call from parameter i on.
BindAll(scope, items, params, i) ==
    IF i > Len(params) THEN [res |-> Ok(None), scope |-> scope, items |-> items]
    ELSE LET r == BindParam(scope, items, params[i])
         IN  IF r.res.ok THEN BindAll(r.scope, r.items, params, i + 1) ELSE r

\* The exhaustion check and the value of Func::call, given what the native
\* function or closure returned and the items it left.
Finished(r, items) ==
    IF ~r.ok THEN r
    ELSE IF ArgsFinish(items).ok THEN Ok(r.val) ELSE ArgsFinish(items)

\* The outcomes of calling f, a native function or a closure, with items. The
\* body of a closure is a function of the scope it is evaluated in: evaluated
\* in bodyScope it gives bodyResult and leaves bodyFlow, and of its evaluation
\* in another scope nothing is recorded. A native function may fail.
DirectOutcomes(f, callSite, items, bodyScope, bodyResult, bodyFlow) ==
    IF f.kind = "native"
    THEN {Finished(NativeFunc(f, items, fails).res, NativeFunc(f, items, fails).items) :
             fails \in BOOLEAN}
    ELSE LET c == f.closure
             b == BindAll(CallScopes(c, callSite), items, c.params, 1)
             s == BindSink(b.scope, b.items, c.sink)
         IN  IF ~b.res.ok THEN {b.res}
             ELSE IF s.scope # bodyScope THEN {}
             ELSE {Finished(ControlFlow(bodyResult, bodyFlow), s.items)}

(***************************************************************************)
(* Properties of calls.                                                    *)
(***************************************************************************)
Count(seq, e) == Cardinality({i \in 1..Len(seq) : seq[i] = e})

Has(seq, e) == \E i \in 1..Len(seq) : seq[i] = e

\* The items of the call in the order the claim states: the items of the
\* innermost application first, the caller's items last.
Flat == AppliedItems(callee) \o supplied

Positionals(items) == Cardinality({i \in 1..Len(items) : items[i].name = NoName})

Defaultless(params) == {i \in 1..Len(params) : ~params[i].default.some}

DefaultedNames(params) == {params[i].name : i \in (1..Len(params)) \ Defaultless(params)}

\* The n-th parameter without a default, in declaration order.
NthDefaultless(params, n) ==
    CHOOSE i \in Defaultless(params) :
        Cardinality({j \in Defaultless(params) : j <= i}) = n

\* Some item is consumed by no parameter of a closure without a sink.
Surplus(c, items) ==
    /\ c.sink = NoName
    /\ \/ Positionals(items) > Cardinality(Defaultless(c.params))
       \/ \E i \in 1..Len(items) :
             items[i].name # NoName /\ items[i].name \notin DefaultedNames(c.params)

CalledClosure == callee # NoFunc /\ Base(callee).kind = "closure"

\* C1 as stated: a call of a closure without a sink that supplies an argument
\* no parameter consumes fails with UnexpectedArgument, and the body is never
\* evaluated in it.
C1_UnexpectedBeforeBody ==
    (pc = "done" /\ CalledClosure /\ Surplus(Base(callee).closure, Flat))
        => /\ ~outcome.ok
           /\ outcome.err = UnexpectedArgument
           /\ ~Has(trace, "body")

\* C1 as the code has it: such a call never yields a value; the exhaustion
\* check comes after Closure::call has returned, so when the invocation
\* returns a value the body has been evaluated and the call fails with
\* UnexpectedArgument, and when the invocation fails the call fails with the
\* invocation's error and no check is made.
C1_UnexpectedAfterInvocation ==
    (pc = "done" /\ CalledClosure /\ Surplus(Base(callee).closure, Flat))
        => /\ ~outcome.ok
           /\ ret.ok => /\ outcome.err = UnexpectedArgument
                        /\ Has(trace, "body")
                        /\ trace[Len(trace)] = "finish"
           /\ ~ret.ok => outcome = ret /\ ~Has(trace, "finish")

C1_Witness ==
    /\ pc = "done"
    /\ CalledClosure
    /\ Surplus(Base(callee).closure, Flat)
    /\ Len(Base(callee).closure.params) > 0
    /\ ret.ok
    /\ Has(trace, "body")
    /\ outcome.err = UnexpectedArgument

\* C2: the wrapped function of f.with(a1).with(a2) called with b is dispatched
\* with a1's items, then a2's, then b's, and the call has an outcome of the
\* direct call of the wrapped function with those items (the body behaving
\* in the direct call as it does here).
C2_WithIsPrepending ==
    /\ pc = "call" => /\ Base(cur) = Base(callee)
                      /\ AppliedItems(cur) \o args = Flat
    /\ pc = "done" =>
          outcome \in DirectOutcomes(Base(callee), outer, Flat, scopes, result, flow)

C2_Witness ==
    /\ pc = "done"
    /\ CalledClosure
    /\ Depth(callee) = 2
    /\ callee.applied # <<>>
    /\ callee.wrapped.applied # <<>>
    /\ supplied # <<>>
    /\ Flat[1].name = NoName
    /\ Flat[2].name = NoName
    /\ Flat[1] # Flat[2]
    /\ outcome.ok

\* C7: a closure call with fewer positional arguments than the closure has
\* defaultless parameters fails with MissingArgument naming the first
\* defaultless parameter left without one, before the sink is bound and before
\* the body is evaluated.
C7_MissingArgument ==
    LET params == Base(callee).closure.params
        k == Positionals(Flat)
    IN  (pc = "done" /\ CalledClosure /\ k < Cardinality(Defaultless(params)))
            => /\ outcome = Err(MissingArgument, params[NthDefaultless(params, k + 1)].name)
               /\ ~Has(trace, "sink")
               /\ ~Has(trace, "body")
               /\ ~Has(trace, "finish")

C7_Witness ==
    /\ pc = "done"
    /\ CalledClosure
    /\ Base(callee).closure.sink # NoName
    /\ Positionals(Flat) = 1
    /\ Len(Flat) > 1
    /\ Cardinality(Defaultless(Base(callee).closure.params)) = 2
    /\ outcome.err = MissingArgument
    /\ outcome.what = Base(callee).closure.params[2].name

\* C8: once the body has been evaluated, the pending flow decides what the
\* closure invocation returns: a return with a value gives that value whatever
\* the body's result, a return without a value or no flow gives the body's
\* result, break and continue give IllegalControlFlow for that kind; the call
\* yields the returned value when the arguments are exhausted.
C8_FlowDecides ==
    Has(trace, "flow")
        => /\ (flow.kind = "return" /\ flow.value.some) => ret = Ok(flow.value.val)
           /\ (flow.kind = "return" /\ ~flow.value.some) => ret = result
           /\ flow.kind = "none" => ret = result
           /\ flow.kind \in {"break", "continue"} => ret = Err(IllegalControlFlow, flow.kind)
           /\ (pc = "done" /\ ret.ok /\ args = <<>>) => outcome = ret
           /\ (pc = "done" /\ ~ret.ok) => outcome = ret

C8_Witness ==
    /\ pc = "done"
    /\ flow = Return(Some(ExplicitValue))
    /\ result = Ok(BodyValue)
    /\ outcome = Ok(ExplicitValue)

\* C9: a closure call whose body evaluation yielded an error yields an error,
\* whatever flow is pending.
C9_NoPartialSuccess ==
    (pc = "done" /\ Has(trace, "body") /\ ~result.ok) => ~outcome.ok

\* C10: the exhaustion check is made at most once in a call, by the dispatch
\* at the bottom of the chain, after every With has spliced its items and the
\* native function or closure has returned a value; it is made exactly when
\* the invocation returns a value, never when it fails.
C10_OneCheckAtBottom ==
    LET n == Count(trace, "finish")
    IN  /\ n <= 1
        /\ n = 1 => /\ ret.ok
                    /\ trace[Len(trace)] = "finish"
                    /\ Count(trace, "with") = Depth(callee)
                    /\ cur = Base(callee)
                    /\ outcome.ok <=> args = <<>>
        /\ pc = "finish" => ret.ok /\ cur = Base(callee)
        /\ pc = "done" => (n = 1 <=> ret.ok)

C10_Witness ==
    /\ pc = "done"
    /\ Depth(callee) = 2
    /\ Count(trace, "finish") = 1
    /\ Len(Flat) = 3
    /\ outcome.err = UnexpectedArgument

(***************************************************************************)
(* Properties of the captured scope across assignments and calls.          *)
(***************************************************************************)
\* The names the invocation in progress has bound so far.
BoundSoFar ==
    LET c == cur.closure
    IN  {c.params[i].name : i \in 1..(pidx - 1)}
            \cup (IF Has(trace, "sink") /\ c.sink # NoName THEN {c.sink} ELSE {})

\* C3: the captured scope of a closure stays what it was at the definition,
\* whatever is assigned to the outer bindings and however often the closure is
\* called; every invocation starts from exactly the captured bindings, binds
\* its parameters over them, and has no other binding of the call site.
C3_CopyCapture ==
    base.kind = "closure"
        => /\ base.closure.captured = defScope
           /\ pc # "idle" => cur = base
           /\ pc \notin {"idle", "call"}
                 => /\ DOMAIN scopes = DOMAIN defScope \cup BoundSoFar
                    /\ \A n \in DOMAIN defScope \ BoundSoFar : scopes[n] = defScope[n]

C3_Witness ==
    /\ base.kind = "closure"
    /\ calls = 2
    /\ pc = "body"
    /\ "x" \in DOMAIN defScope
    /\ outer["x"] # defScope["x"]
    /\ scopes["x"] # defScope["x"]
    /\ base.closure.captured["x"] = defScope["x"]

(***************************************************************************)
(* Properties of the capture walk, over the steps it has taken.            *)
(***************************************************************************)
IsPrefix(p, q) == Len(p) <= Len(q) /\ SubSeq(q, 1, Len(p)) = p

\* q lies in the k-th child of the node at p.
Under(p, k, q) == IsPrefix(Append(p, k), q)

Steps == 1..Len(log)

VisitOf(i, kinds) == log[i].ev = "visit" /\ log[i].kind \in kinds

\* Step b binds a name for the construct at p.
BindOf(b, p) == log[b].ev = "bind" /\ log[b].path = p

\* Step e visits a node in the k-th child of the node at p.
VisitUnder(e, p, k) == log[e].ev = "visit" /\ Under(p, k, log[e].path)

NoBindBetween(i, j) == \A k \in (i + 1)..(j - 1) : log[k].ev # "bind"

\* The name resolves in the outer scope: no binding active in frames hides
\* it, and the external scopes define it.
ResolvesOutside(frames, name) == name \in DOMAIN external /\ ~Bound(frames, name)

ParamNamesOf(node) == {node.params[k].name : k \in 1..Len(node.params)}

Walked(i) == root = TestTrees[i] /\ external = TestScope /\ work = <<>>

\* C4: for every closure literal of the walk, every visit inside the default
\* expressions of its named parameters comes before every binding of its
\* parameter names, and all its parameters (positional, named, sink) are bound
\* before any visit inside its body. An identifier in a default expression
\* that names one of the closure's own parameters is captured exactly when
\* it resolves in the outer scope under the bindings active before the
\* closure; an identifier in the body that names a parameter is not captured.
\* The walk of (x, y: x + z) => x + y ends with the captures {x, z}.
C4_DefaultsThenParamsThenBody ==
    /\ \A c \in Steps : VisitOf(c, {"closure"}) =>
          LET p == log[c].path
              node == NodeAt(root, p)
              n == Len(node.params)
              InDefault(e) == \E k \in 1..n : VisitUnder(e, p, k)
          IN  /\ \A d \in Steps, b \in Steps : InDefault(d) /\ BindOf(b, p) => d < b
              /\ \A b \in Steps, e \in Steps :
                    BindOf(b, p) /\ VisitUnder(e, p, n + 1) => b < e
              /\ \A b \in Steps : BindOf(b, p) =>
                    \A k \in 1..n : node.params[k].kind = "named" =>
                        \E d \in 1..(b - 1) : log[d].path = Append(p, k)
              /\ \A e \in Steps : VisitUnder(e, p, n + 1) =>
                    /\ \A k \in 1..n :
                          /\ \E b \in 1..(e - 1) :
                                BindOf(b, p) /\ log[b].name = node.params[k].name
                          /\ Bound(log[e].frames, node.params[k].name)
                    /\ log[e].kind = "ident" /\ log[e].name \in ParamNamesOf(node)
                          => ~log[e].took
              /\ \A d \in Steps :
                    /\ InDefault(d)
                    /\ log[d].kind = "ident"
                    /\ log[d].name \in ParamNamesOf(node)
                    /\ NoBindBetween(c, d)
                    => log[d].took = ResolvesOutside(log[c].frames, log[d].name)
    /\ Walked(7) => DOMAIN captures = {"x", "z"}

\* The walk of (x, y: x + z) => x + y is over: x of the default was captured.
C4_Witness ==
    /\ Walked(7)
    /\ DOMAIN captures = {"x", "z"}
    /\ \E c \in Steps, d \in Steps, e \in Steps :
          /\ VisitOf(c, {"closure"})
          /\ VisitUnder(d, log[c].path, 2) /\ log[d].name = "x" /\ log[d].took
          /\ VisitUnder(e, log[c].path, 3) /\ log[e].name = "x" /\ ~log[e].took

\* The names a let, a for loop or an import binds.
BindsOf(node) ==
    IF node.kind = "let" THEN {node.name}
    ELSE IF node.kind = "import" /\ node.name # "items" THEN {}
    ELSE {node.names[k] : k \in 1..Len(node.names)}

\* C5: for every let, for loop and import of the walk, every visit inside its
\* source expression (initializer, iterable, path) comes before every binding
\* the construct makes, and the source expression is entered under exactly
\* the bindings active before the construct. An identifier of the source
\* expression that names something the construct binds is captured exactly
\* when it resolves in the outer scope under the bindings active before the
\* construct; all names of a for pattern are bound before its body is visited
\* and an identifier in the body that names one of them is not captured. The
\* walks of "let x = x", "for x, y in y { x + y }" and
\* "import x, y, z from x + y" end with the captures {x}, {y} and {x, y}.
C5_SourceThenBinding ==
    /\ \A c \in Steps : VisitOf(c, {"let", "for", "import"}) =>
          LET p == log[c].path
              node == NodeAt(root, p)
          IN  /\ \A s \in Steps, b \in Steps :
                    VisitUnder(s, p, 1) /\ BindOf(b, p) => s < b
              /\ \A b \in Steps : BindOf(b, p) /\ node.kids # <<>> =>
                    \E s \in 1..(b - 1) : log[s].path = Append(p, 1)
              /\ \A s \in Steps :
                    log[s].ev = "visit" /\ log[s].path = Append(p, 1)
                        => log[s].frames = log[c].frames
              /\ \A s \in Steps :
                    /\ VisitUnder(s, p, 1)
                    /\ log[s].kind = "ident"
                    /\ log[s].name \in BindsOf(node)
                    /\ NoBindBetween(c, s)
                    => log[s].took = ResolvesOutside(log[c].frames, log[s].name)
              /\ node.kind = "for" =>
                    \A e \in Steps : VisitUnder(e, p, 2) =>
                        /\ \A name \in BindsOf(node) :
                              /\ \E b \in 1..(e - 1) : BindOf(b, p) /\ log[b].name = name
                              /\ Bound(log[e].frames, name)
                        /\ log[e].kind = "ident" /\ log[e].name \in BindsOf(node)
                              => ~log[e].took
    /\ Walked(1) => DOMAIN captures = {"x"}
    /\ Walked(12) => DOMAIN captures = {"y"}
    /\ Walked(14) => DOMAIN captures = {"x", "y"}

\* The walk of "for x, y in y { x + y }" is over: the iterable y was captured,
\* the y of the body was not.
C5_Witness ==
    /\ Walked(12)
    /\ DOMAIN captures = {"y"}
    /\ \E c \in Steps, s \in Steps, e \in Steps :
          /\ VisitOf(c, {"for"})
          /\ VisitUnder(s, log[c].path, 1) /\ log[s].name = "y" /\ log[s].took
          /\ VisitUnder(e, log[c].path, 2) /\ log[e].name = "y" /\ ~log[e].took

\* C6: when a code or content block has been walked, the internal frames are
\* again what they were before the block, so what was bound inside is gone
\* and what the enclosing frames bound is kept; inside the block the
\* enclosing frames are active unchanged below the block's own frame. An
\* identifier visited after the block that names something bound inside it,
\* with nothing bound in between, is captured exactly when it resolves in
\* the outer scope under the bindings active before the block. The walk of
\* { let x = 1; { let y = 2; y }; x + y } ends with the captures {y}.
C6_BlockScoped ==
    /\ \A c \in Steps : VisitOf(c, {"code", "content"}) =>
          LET p == log[c].path
              before == log[c].frames
              Exits(j) == log[j].ev = "exit" /\ log[j].path = p
              Inside(e) == IsPrefix(p, log[e].path) /\ log[e].path # p
          IN  /\ \A j \in Steps : Exits(j) => log[j].frames = before
              /\ \A e \in Steps : Inside(e) =>
                    /\ Len(log[e].frames) > Len(before)
                    /\ SubSeq(log[e].frames, 1, Len(before)) = before
                    /\ \A j \in Steps : Exits(j) => e < j
              /\ \A j \in Steps, e \in Steps :
                    /\ Exits(j)
                    /\ e > j
                    /\ log[e].kind = "ident"
                    /\ \E b \in (c + 1)..(j - 1) :
                          log[b].ev = "bind" /\ log[b].name = log[e].name
                    /\ NoBindBetween(j, e)
                    /\ \A k \in (j + 1)..e : Len(log[k].frames) >= Len(before)
                    => log[e].took = ResolvesOutside(before, log[e].name)
    /\ Walked(15) => DOMAIN captures = {"y"}

\* The walk of { let x = 1; { let y = 2; y }; x + y } is over: the y after the
\* inner block was captured, the y inside it and the x after it were not.
C6_Witness ==
    /\ Walked(15)
    /\ DOMAIN captures = {"y"}
    /\ \E c \in Steps, j \in Steps, e \in Steps, f \in Steps :
          /\ VisitOf(c, {"code"}) /\ Len(log[c].frames) = 2
          /\ log[j].ev = "exit" /\ log[j].path = log[c].path
          /\ j < e /\ log[e].kind = "ident" /\ log[e].name = "y" /\ log[e].took
          /\ j < f /\ log[f].kind = "ident" /\ log[f].name = "x" /\ ~log[f].took

(***************************************************************************)
(* Properties of the operations other than call.                           *)
(***************************************************************************)
\* C11: argc of a native function, and of any chain of applications around
\* one, is unknown; so is argc of a closure with a sink and of any chain
\* around it. For a closure without a sink it is the number of parameters
\* without a default, and for a chain around such a closure that number less
\* the number of unnamed pre-applied items of the whole chain, or zero when
\* there are more unnamed items than that; it is never negative, and named
\* pre-applied items do not change it.
C11_Argc ==
    answer # NoAnswer /\ answer.op = "argc" =>
        LET b == Base(callee)
            applied == AppliedItems(callee)
            unnamed == Positionals(applied)
        IN  IF b.kind = "native" \/ b.closure.sink # NoName
            THEN answer.res = Unknown
            ELSE LET n == Cardinality(Defaultless(b.closure.params))
                 IN  /\ answer.res.known
                     /\ answer.res.n >= 0
                     /\ answer.res.n = (IF unnamed >= n THEN 0 ELSE n - unnamed)

\* argc of a twice applied closure with one parameter without a default, with
\* two unnamed and one named pre-applied items, is zero.
C11_Witness ==
    /\ answer # NoAnswer
    /\ answer.op = "argc"
    /\ Depth(callee) = 2
    /\ Base(callee).kind = "closure"
    /\ Base(callee).closure.sink = NoName
    /\ Cardinality(Defaultless(Base(callee).closure.params)) = 1
    /\ Positionals(AppliedItems(callee)) = 2
    /\ Len(AppliedItems(callee)) = 3
    /\ answer.res = Known(0)

(***************************************************************************)
(* Properties of the bindings a closure invocation makes.                  *)
(***************************************************************************)
\* The indexes of the items whose name is in names, in order.
IndexesOf(items, names) ==
    LET F[i \in 0..Len(items)] ==
            IF i = 0 THEN <<>>
            ELSE IF items[i].name \in names THEN Append(F[i - 1], i) ELSE F[i - 1]
    IN  F[Len(items)]

\* The parameters are bound and the sink has been dealt with.
ParamsBound ==
    /\ pc \in {"body", "flow", "finish", "done"}
    /\ cur.kind = "closure"
    /\ Has(trace, "sink")

\* C12: when the parameters of a closure are bound, the i-th parameter
\* without a default holds the value of the i-th positional item of the call
\* (pre-applied items first), and a parameter with a default holds the value
\* of the last item of its name when the call has one and otherwise the
\* default stored in the closure, which is the closure that was defined: the
\* call changes neither the closure nor its defaults.
C12_BindingOrder ==
    ParamsBound =>
        LET ps == cur.closure.params
            positional == IndexesOf(Flat, {NoName})
        IN  /\ cur = base
            /\ \A k \in 1..Len(ps) :
                  IF ps[k].default.some
                  THEN LET same == IndexesOf(Flat, {ps[k].name})
                       IN  scopes[ps[k].name] =
                               (IF Len(same) > 0 THEN Flat[same[Len(same)]].value
                                ELSE ps[k].default.val)
                  ELSE LET i == Cardinality({j \in Defaultless(ps) : j <= k})
                       IN  /\ i <= Len(positional)
                           /\ scopes[ps[k].name] = Flat[positional[i]].value

\* The closure (x, y: 0) is called with y: 3 through an application that
\* holds the item 1: x is 1 and y is 3.
C12_Witness ==
    /\ ParamsBound
    /\ callee.kind = "with"
    /\ callee.applied = <<Arg(NoName, IntVal(1))>>
    /\ supplied = <<Arg("y", IntVal(3))>>
    /\ cur.closure.params = <<Param("x", Nothing), Param("y", Some(DefaultValue))>>
    /\ scopes["x"] = IntVal(1)
    /\ scopes["y"] = IntVal(3)

\* The items of a call that the parameters of a closure do not consume: the
\* positional items after the first one for each parameter without a default
\* and the named items that name no parameter with a default, in order.
Remaining(c, items) ==
    LET n == Cardinality(Defaultless(c.params))
        Stays(i) ==
            IF items[i].name = NoName
            THEN Positionals(SubSeq(items, 1, i)) > n
            ELSE items[i].name \notin DefaultedNames(c.params)
        F[i \in 0..Len(items)] ==
            IF i = 0 THEN <<>>
            ELSE IF Stays(i) THEN Append(F[i - 1], items[i]) ELSE F[i - 1]
    IN  F[Len(items)]

\* C13: in the invocation of a closure with a sink, once the sink is dealt
\* with it holds every item of the call that the parameters did not consume,
\* positional and named, in order, and the argument list is empty and stays
\* so; the exhaustion check after the invocation passes, and the call does
\* not end with UnexpectedArgument.
C13_SinkTakesAll ==
    CalledClosure /\ Base(callee).closure.sink # NoName =>
        /\ ParamsBound =>
              /\ args = <<>>
              /\ scopes[cur.closure.sink] = ArgsValue(Remaining(cur.closure, Flat))
        /\ Has(trace, "finish") => outcome = Ok(ret.val)
        /\ pc = "done" => outcome.err # UnexpectedArgument

\* A closure (x, ..s) is called with two positional items and a named one, one
\* of the positional items pre-applied: the sink holds the second and the
\* named one, and the call has returned the value of the body.
C13_Witness ==
    /\ CalledClosure
    /\ pc = "done"
    /\ callee.kind = "with"
    /\ cur.closure.sink = SinkName
    /\ cur.closure.params = <<Param("x", Nothing)>>
    /\ Flat = <<Arg(NoName, IntVal(1)), Arg("y", IntVal(3)), Arg(NoName, IntVal(2))>>
    /\ scopes[SinkName] = ArgsValue(<<Arg("y", IntVal(3)), Arg(NoName, IntVal(2))>>)
    /\ outcome = Ok(BodyValue)

(***************************************************************************)
(* Properties of the equality of function values.                          *)
(***************************************************************************)
\* C14: two Funcs are equal exactly when one constructor call produced both
\* (a Func, itself and its clones); Funcs of separate constructor calls are
\* unequal, also when the two allocations hold the same representation, and
\* the Func a with call returns is unequal to the Func it wraps.
C14_IdentityEquality ==
    answer # NoAnswer /\ answer.op = "eq" =>
        LET a == funcs[answer.left]
            b == funcs[answer.right]
        IN  /\ answer.res = (a.made = b.made)
            /\ answer.left = answer.right => answer.res
            /\ a.made # b.made /\ heap[a.addr] = heap[b.addr] => ~answer.res
            /\ heap[a.addr].kind = "with" /\ heap[a.addr].wrapped = b.addr => ~answer.res

\* f.with(1) was built twice from the same f and the two results, which hold
\* the same representation, were compared and found unequal.
C14_Witness ==
    /\ answer # NoAnswer
    /\ answer.op = "eq"
    /\ funcs[answer.left].made # funcs[answer.right].made
    /\ heap[funcs[answer.left].addr] = heap[funcs[answer.right].addr]
    /\ heap[funcs[answer.left].addr].kind = "with"
    /\ heap[funcs[answer.left].addr].applied = <<Arg(NoName, IntVal(1))>>
    /\ ~answer.res

(***************************************************************************)
(* Properties of set, node and where_.                                     *)
(***************************************************************************)
NodeBacked(f) == f.kind = "native" /\ f.node

AnswerTo(op) == answer # NoAnswer /\ answer.op = op

\* C15: set, node and where_ return a value only on a function that is
\* itself a native function of a node. On every other function (a native
\* function without a node, a closure, any partial application, also one
\* around a native function of a node) set and node fail with
\* NotCustomizable and where_ fails with NotSelectable, and the argument list
\* given to where_ is then what it was.
C15_NodeOnly ==
    /\ AnswerTo("set") =>
          /\ answer.res.ok => NodeBacked(callee)
          /\ ~NodeBacked(callee) => answer.res.err = NotCustomizable
    /\ AnswerTo("node") =>
          /\ answer.res.ok <=> NodeBacked(callee)
          /\ ~NodeBacked(callee) => answer.res.err = NotCustomizable
    /\ AnswerTo("where") =>
          /\ answer.res.ok <=> NodeBacked(callee)
          /\ ~NodeBacked(callee) =>
                /\ answer.res.err = NotSelectable
                /\ args = supplied

\* where_ on a partial application around a native function of a node, with a
\* named item in the list: NotSelectable, and the list is unchanged.
C15_Witness ==
    /\ AnswerTo("where")
    /\ callee.kind = "with"
    /\ NodeBacked(Base(callee))
    /\ \E i \in 1..Len(supplied) : supplied[i].name # NoName
    /\ answer.res.err = NotSelectable
    /\ args = supplied

\* C18: where_ on a native function of a node leaves in the argument list
\* the positional items it had, in their order, and no named item, and
\* returns a selector of that function's node id whose dictionary has the
\* names of the named items the list had, each with the value of an item
\* of that name.
C18_WhereTakesNamed ==
    AnswerTo("where") /\ NodeBacked(callee) =>
        LET positional == IndexesOf(supplied, {NoName})
            names == {supplied[i].name : i \in 1..Len(supplied)} \ {NoName}
        IN  /\ args = [k \in 1..Len(positional) |-> supplied[positional[k]]]
            /\ answer.res.ok
            /\ answer.res.val.tag = "selector"
            /\ answer.res.val.id = NodeId(callee)
            /\ DOMAIN answer.res.val.named = names
            /\ \A n \in names :
                  \E i \in 1..Len(supplied) :
                      /\ supplied[i].name = n
                      /\ supplied[i].value = answer.res.val.named[n]

\* where_ with the items y: 3, 2, z: 5: the list is left with 2 and the
\* selector has y and z.
C18_Witness ==
    /\ AnswerTo("where")
    /\ NodeBacked(callee)
    /\ supplied = <<Arg("y", IntVal(3)), Arg(NoName, IntVal(2)), Arg("z", IntVal(5))>>
    /\ args = <<Arg(NoName, IntVal(2))>>
    /\ answer.res.ok
    /\ DOMAIN answer.res.val.named = {"y", "z"}

(***************************************************************************)
(* Further properties of the capture walk.                                 *)
(***************************************************************************)
\* The names a closure literal or a for loop binds.
OwnNames(node) ==
    IF node.kind = "closure" THEN ParamNamesOf(node) ELSE BindsOf(node)

\* C16: the parameter names of a closure literal and the pattern names of a
\* for loop are bound only while its body is walked. An identifier visited
\* after the construct, outside it, while the frame the construct was
\* visited in is still active, that has one of these names, that no binding
\* active before the construct hides, and that no let, import or enclosing
\* closure or loop has bound since, is captured exactly when the external
\* scopes define it.
C16_BindingsEndWithBody ==
    \A c \in Steps, e \in Steps :
        LET p == log[c].path
            node == NodeAt(root, p)
            name == log[e].name
            Shadows(b) ==
                /\ log[b].ev = "bind"
                /\ log[b].name = name
                /\ \/ NodeAt(root, log[b].path).kind \in {"let", "import"}
                   \/ IsPrefix(log[b].path, log[e].path)
        IN  /\ VisitOf(c, {"closure", "for"})
            /\ c < e
            /\ VisitOf(e, {"ident"})
            /\ ~IsPrefix(p, log[e].path)
            /\ name \in OwnNames(node)
            /\ ~Bound(log[c].frames, name)
            /\ \A k \in c..e : Len(log[k].frames) >= Len(log[c].frames)
            /\ \A b \in (c + 1)..(e - 1) : ~Shadows(b)
            => log[e].took = (name \in DOMAIN external)

\* The walk is about to visit an identifier of this name.
AtIdent(name) ==
    /\ work # <<>>
    /\ Head(work).op = "visit"
    /\ Head(work).node = Ident(name)

\* C17: in every step of a capture walk, every captured name is defined in
\* the external scopes and captured with the value it has there; the
\* external scopes do not change; what was captured stays captured with its
\* value; a name is newly captured only by the visit of an identifier of
\* that name that no active internal frame binds; and the visit of an
\* identifier the external scopes do not define captures nothing and the
\* walk goes on with what comes next.
C17_CaptureInvariants ==
    [][/\ \A n \in DOMAIN captures' :
             n \in DOMAIN external' /\ captures'[n] = external'[n]
       /\ external' = external
       /\ \A n \in DOMAIN captures :
             n \in DOMAIN captures' /\ captures'[n] = captures[n]
       /\ \A n \in DOMAIN captures' \ DOMAIN captures :
             AtIdent(n) /\ ~Bound(internal, n)
       /\ \A n \in {"x", "y", "z"} \ DOMAIN external :
             AtIdent(n) => captures' = captures /\ work' = Tail(work)]_vars

\* x was captured, then a closure (x) => x + y was walked: the x of its body
\* was bound and the y, which the external scopes do not define, was skipped.
C17_Witness ==
    /\ DOMAIN external = {"x"}
    /\ DOMAIN captures = {"x"}
    /\ captures["x"] = external["x"]
    /\ work = <<>>
    /\ \E a \in Steps, b \in Steps, c \in Steps :
          /\ a < b /\ b < c
          /\ VisitOf(a, {"ident"}) /\ log[a].name = "x" /\ log[a].took
          /\ VisitOf(b, {"ident"}) /\ log[b].name = "x" /\ ~log[b].took
          /\ Bound(log[b].frames, "x")
          /\ VisitOf(c, {"ident"}) /\ log[c].name = "y" /\ ~log[c].took

(***************************************************************************)
(* Properties of the route of a closure invocation.                        *)
(***************************************************************************)
\* C19: once the body of a closure has been evaluated, the Vm it was
\* evaluated in is at the closure's location, and its route is a new route
\* of the closure's location when the location of the caller's Vm is
\* detached and the caller's route otherwise; from the start of a call to
\* its end the caller's Vm (location and route) and the caller's scopes stay
\* what they are.
C19_Route ==
    [][/\ Has(trace', "body") =>
             /\ sub'.location = cur'.closure.location
             /\ vm'.location = Detached => sub'.route = Route(cur'.closure.location)
             /\ vm'.location # Detached => sub'.route = vm'.route
       /\ ~Has(trace', "body") => sub' = NoVm
       /\ pc # "idle" /\ pc' # "idle" => vm' = vm /\ outer' = outer]_vars

\* A call from outside an evaluation has returned the value of the body,
\* which was evaluated under a new route of the closure's location.
C19_Witness ==
    /\ pc = "done"
    /\ outcome = Ok(BodyValue)
    /\ vm = Vm(Detached, DefaultRoute)
    /\ sub = Vm("source", Route("source"))

\* C20: every capture walk comes to its end; no node is visited twice; and
\* at the end the internal frames are as many as at the start, every frame
\* entered for a block having been exited.
C20_WalkEnds ==
    /\ <>(work = <<>>)
    /\ [](\A i \in Steps, j \in Steps :
             i # j /\ log[i].ev = "visit" /\ log[j].ev = "visit"
                 => log[i].path # log[j].path)
    /\ [](work = <<>> =>
             /\ Len(internal) = Len(NewScopes)
             /\ Cardinality({i \in Steps : VisitOf(i, {"code", "content"})})
                    = Cardinality({i \in Steps : log[i].ev = "exit"}))

\* The walk of { let x = 1; { let y = 2; y }; x + y } is over: two frames were
\* entered and exited, and the frames are as many as at the start.
C20_Witness ==
    /\ Walked(15)
    /\ Len(internal) = Len(NewScopes)
    /\ Cardinality({i \in Steps : log[i].ev = "exit"}) = 2
    /\ Cardinality({i \in Steps : log[i].ev = "visit"}) = 11

====
